---- MODULE Spec2Model ----
(***************************************************************************)
(* Connection-lifecycle orchestration and durable delivery layer of the    *)
(* WhatsApp bot (src/deploy-commands.md, the index.js listing): the        *)
(* bounded retrying MessageQueue, the BaileysWhatsAppBot connection        *)
(* manager with its connection.update / creds.update handlers, the session *)
(* store functions over the bucket, and shutdown.                          *)
(*                                                                         *)
(* The program is single-threaded and cooperative: every `await` is a      *)
(* suspension point.  An action of this module is the code that runs       *)
(* between two suspension points of one handler.                           *)
(***************************************************************************)
EXTENDS Integers, Sequences, FiniteSets, Bags, TLC

(***************************************************************************)
(* Program constants (CONFIG and literals of the source).                  *)
(***************************************************************************)
messageQueueMaxSize == 100
messageRetryDelay == 2000
rateLimitDelay == 100
qrDebounceMs == 5000
reconnectDelay == 5000
initRetryDelay == 10000
maxRetries == 3
baseRetryDelay == 1000
maxRetryDelay == 30000
lockTtlMs == 300000
defaultRetries == 3

(***************************************************************************)
(* Bounds of the model: what the environment does in one run.              *)
(***************************************************************************)
MaxAttempts == 3      \* enqueue() is called with retries in 1..MaxAttempts
TickMs == 2500        \* granularity of the clock
BootTime == 400000    \* Date.now() at construction (any value > lockTtlMs)
QueueEnq == 2         \* queue runs: enqueue() calls
QueueEvents == 2      \* queue runs: connection.update events
QueueTicks == 4       \* queue runs: clock advances
FullEnq == 2          \* full-queue runs: enqueue() calls
FullTicks == 2        \* full-queue runs: clock advances
FullEvents == 2       \* full-queue runs: connection.update events
PairEvents == 3       \* pairing runs: connection.update events
PairTicks == 2        \* pairing runs: clock advances
PairFaults == 1       \* pairing runs: renderings that fail
SessEvents == 2       \* session runs: connection.update and creds.update events
SessTicks == 2        \* session runs: clock advances
SessFaults == 1       \* session runs: failing bucket / file-system calls
BootTicks == 4        \* start-up runs: clock advances
BootFaults == 3       \* start-up runs: failing bucket calls
BootEvents == 1       \* start-up runs: connection.update events
StopTicks == 4
StopFaults == 1
ShutTicks == 3
ShutFaults == 3
RaceFaults == 1
LockTicks == 1
LockFaults == 1
LockPeers == 2
StoreCalls == 3
StoreTicks == 1
StoreFaults == 1
HttpEnq == 2
HttpEvents == 2
HttpTicks == 2
RetryMax == 3
RetryTicks == 4
MirrorCalls == 2
MirrorTicks == 1
MirrorFaults == 1
CredsEvents == 2
CredsTicks == 1
CredsFaults == 1
BackoffMax == 7
BackoffTicks == 13
ReplyEnq == 2
ReplyEvents == 1
ReplyTicks == 3

VARIABLES
    \* MessageQueue
    queue,          \* this.queue: sequence of items, front first
    processing,     \* this.processing
    drainPc,        \* where processQueue() is suspended
    item,           \* the item processQueue() shifted and is sending
    drainWake,      \* when the pending sleep() of processQueue() is due
    loops,          \* how many processQueue() calls are past their guard and running
    \* BaileysWhatsAppBot
    sock,           \* this.sock: 0 is null, else the socket's number
    isConnected,    \* this.isConnected
    qrCodeBase64,   \* this.qrCodeBase64: NoQR is null
    isShuttingDown, \* this.isShuttingDown
    lastQRTime,     \* this.lastQRTime
    authReady,      \* this.saveCreds / this.authState are set
    memVer,         \* the credentials held in this.authState
    \* session store
    localDir,       \* CONFIG.sessionPath exists
    local,          \* files of CONFIG.sessionPath
    remote,         \* objects under CONFIG.sessionsPrefix, lock.json excluded
    lockObj,        \* the object <prefix>lock.json: NoLock, or the record saved
    \* environment
    now,            \* Date.now()
    exited,         \* process.exit() was called
    timers,         \* pending setTimeout callbacks, in creation order
    tasks,          \* suspended async handlers, a bag
    budget,         \* what the environment may still do in this run
    \* history (not program state)
    nextId,         \* identity of the next enqueue() call
    finished,       \* terminal outcomes reported in the log
    rejected,       \* enqueue() calls that queued nothing: returned false, or threw
    prevQrAt,       \* when the latest pairing challenge arrived
    loggedOutVer,   \* newest credentials of a session whose logout was handled
    holders,        \* instances whose acquireLock() returned true, not yet released
    snap,           \* the store when the latest uploadSessionToBucket() call returned
    step            \* what the latest step did

qVars == <<queue, processing, drainPc, item, drainWake, loops>>
botVars == <<sock, isConnected, qrCodeBase64, isShuttingDown, lastQRTime, authReady, memVer>>
storeVars == <<localDir, local, remote, lockObj, holders>>
envVars == <<now, exited, timers, tasks, budget>>
qHist == <<nextId, finished, rejected>>
cHist == <<prevQrAt, loggedOutVer, snap>>
vars == <<qVars, botVars, storeVars, envVars, qHist, cHist, step>>

(***************************************************************************)
(* Values                                                                  *)
(***************************************************************************)
NoItem == [id |-> 0, retries |-> 0, n0 |-> 0, tries |-> 0, to |-> <<>>]
NoQR == <<>>
NoFile == 0
\* Instances of the program that share the bucket: this process, a peer,
\* and an instance that has crashed.
Me == 1
Peer == 2
Gone == 3
NoLock == [holder |-> 0, at |-> 0]
FileSeq == <<"creds.json", "keys.json">>
Files == {FileSeq[i] : i \in DOMAIN FileSeq}
NoFiles == [f \in Files |-> NoFile]
\* n: how many calls in a row have returned with these local files.
NoSnap == [n |-> 0, remote |-> NoFiles, local |-> NoFiles]

\* What a step did: op names it; the other fields describe a connection.update
\* handler that returned (conn, reason, debounced, armed, sd, threw), a
\* pairing challenge that arrived (accepted, sincePrev, sinceAccepted), an
\* enqueue() call (ok, len), a failed send of the queue ("requeued",
\* "dropped": reason), a connection attempt (op = "connect"), an
\* acquireLock() call of instance inst that returned ok (stale: it had found
\* an expired record), a releaseLock() call ("released", "exit"), an HTTP
\* response (op = "respond": route, status, the request's fields to and msg),
\* a withRetry() call that returned or threw (attempt: the invocation that
\* settled it, max: its maxRetries argument).
NoStep == [op |-> "none", conn |-> "none", reason |-> "none", debounced |-> FALSE,
           armed |-> 0, sd |-> FALSE, threw |-> FALSE, qr |-> FALSE,
           accepted |-> FALSE, sincePrev |-> 0, sinceAccepted |-> 0,
           ok |-> FALSE, len |-> 0, inst |-> 0, stale |-> FALSE,
           route |-> "none", status |-> 0, to |-> "none", msg |-> "none",
           attempt |-> 0, max |-> 0, rcpt |-> <<>>, jid |-> <<>>]

NoBudget == [enq |-> 0, events |-> 0, ticks |-> 0, faults |-> 0, signals |-> 0,
             peers |-> 0, calls |-> 0]

\* The bag of suspended handlers: one more t, one t less, t2 in place of t.
Add(t) == tasks (+) SetToBag({t})
Drop(t) == tasks (-) SetToBag({t})
Replace(t, t2) == (tasks (-) SetToBag({t})) (+) SetToBag({t2})

Task(kind, pc) ==
    [kind |-> kind, pc |-> pc, op |-> "none", conn |-> "none",
     reason |-> "none", qr |-> 0, attempt |-> 0, todo |-> <<>>, val |-> 0, wake |-> 0, frames |-> <<>>,
     max |-> maxRetries]

Max(a, b) == IF a >= b THEN a ELSE b
Min(a, b) == IF a <= b THEN a ELSE b
RECURSIVE Pow2(_)
Pow2(n) == IF n <= 0 THEN 1 ELSE 2 * Pow2(n - 1)

\* QRCode.toDataURL(qr): the data URL of the rendered challenge.
Render(q) == <<"data:image/png;base64", q>>

\* A file the engine's multi-file auth state writes for the app state
\* collection critical_block, and the names a session directory may hold.
BlockName == "app-state-sync-version-critical_block.json"
NameSeq == FileSeq \o <<BlockName>>
Names == {NameSeq[i] : i \in DOMAIN NameSeq}

\* The names dir holds, as a listing returns them: listLocalFiles(), or
\* bucket.getFiles() without the lock object.
ListOf(dir) == SelectSeq(NameSeq, LAMBDA f : f \in DOMAIN dir /\ dir[f] /= NoFile)

\* The characters of a name.
Chars(f) ==
    IF f = "creds.json" THEN
        <<"c", "r", "e", "d", "s", ".", "j", "s", "o", "n">>
    ELSE IF f = "keys.json" THEN
        <<"k", "e", "y", "s", ".", "j", "s", "o", "n">>
    ELSE IF f = "lock.json" THEN
        <<"l", "o", "c", "k", ".", "j", "s", "o", "n">>
    ELSE IF f = "app-state-sync-version-critical_block.json" THEN
        <<"a", "p", "p", "-", "s", "t", "a", "t", "e", "-", "s", "y", "n", "c", "-", "v", "e", "r", "s", "i", "o", "n", "-", "c", "r", "i", "t", "i", "c", "a", "l", "_", "b", "l", "o", "c", "k", ".", "j", "s", "o", "n">>
    ELSE <<>>

\* String.prototype.endsWith
EndsWith(s, suffix) ==
    /\ Len(s) >= Len(suffix)
    /\ SubSeq(s, Len(s) - Len(suffix) + 1, Len(s)) = suffix

\* A digit; `\D` of the regular expression is any other character.
IsDigit(c) == c \in {"0", "1", "2", "3", "4", "5", "6", "7", "8", "9"}

\* String.prototype.startsWith and String.prototype.includes
StartsWith(s, prefix) ==
    /\ Len(s) >= Len(prefix)
    /\ SubSeq(s, 1, Len(prefix)) = prefix
Includes(s, c) == \E i \in 1..Len(s) : s[i] = c

CountryCode == <<"5", "5">>
LocalDigits == 11
UserDomain ==
    <<"@", "s", ".", "w", "h", "a", "t", "s", "a", "p", "p", ".", "n", "e",
      "t">>

\* toWhatsAppJID(phoneNumber): strings as sequences of characters.
AddsCountryCode(cleaned) ==
    ~StartsWith(cleaned, CountryCode) /\ Len(cleaned) <= LocalDigits

toWhatsAppJID(phoneNumber) ==
    LET cleaned == SelectSeq(phoneNumber, IsDigit)
        formatted == IF AddsCountryCode(cleaned)
                     THEN CountryCode \o cleaned
                     ELSE cleaned
    IN IF ~Includes(formatted, "@")
       THEN formatted \o UserDomain
       ELSE formatted

\* Identifiers the engine reports as message.key.remoteJid: a Brazilian
\* user, a user of another country with an 11-digit number, a group.
UserBr ==
    <<"5", "5", "1", "1", "9", "9", "9", "9", "9", "8", "8", "8", "8", "@",
      "s", ".", "w", "h", "a", "t", "s", "a", "p", "p", ".", "n", "e", "t">>
UserUs ==
    <<"1", "4", "1", "5", "5", "5", "5", "1", "2", "3", "4", "@", "s", ".",
      "w", "h", "a", "t", "s", "a", "p", "p", ".", "n", "e", "t">>
GroupJid ==
    <<"1", "2", "0", "3", "6", "3", "0", "2", "5", "2", "4", "6", "1", "2",
      "5", "4", "8", "6", "@", "g", ".", "u", "s">>
SenderJids == {UserBr, UserUs, GroupJid}

\* bucket.getFiles({prefix}): the session objects and, if there, the lock
\* object, which lives under the same prefix.
LockName == "lock.json"
BucketNames == ListOf(remote) \o (IF lockObj /= NoLock THEN <<LockName>> ELSE <<>>)

\* `files.filter(f => !f.name.endsWith('lock.json'))`
SessionFiles_Off(names) == names
SessionFiles(names) ==
    SelectSeq(names, LAMBDA f : ~EndsWith(Chars(f), Chars(LockName)))

\* The content of the object named f (NoFile: there is none).
ObjectAt(f) == IF f = LockName
               THEN (IF lockObj = NoLock THEN NoFile ELSE 1)
               ELSE remote[f]

\* The local directory after file f was written with content v.
Written(f, v) == [g \in DOMAIN local \cup {f} |-> IF g = f THEN v ELSE local[g]]

\* getBackoffDelay(attempt): `rand` is Math.random() in thousandths.
getBackoffDelay_Off(attempt, rand) ==
    LET exponentialDelay == baseRetryDelay * Pow2(attempt - 1)
        jitter == (rand * exponentialDelay) \div 10000
    IN exponentialDelay + jitter
getBackoffDelay(attempt, rand) ==
    LET exponentialDelay == baseRetryDelay * Pow2(attempt - 1)
        jitter == (rand * exponentialDelay) \div 10000
    IN Min(exponentialDelay + jitter, maxRetryDelay)

\* An I/O call fails only while the run's fault budget lasts.
MayFail(ok) == ok \/ budget.faults > 0
Charge(ok) == budget' = IF ok THEN budget ELSE [budget EXCEPT !.faults = @ - 1]

(***************************************************************************)
(* MessageQueue                                                            *)
(***************************************************************************)

\* sendMessage(): `if (!this.bot || !this.bot.sock || !this.bot.isConnected)`.
NotConnected_Off == sock = 0
NotConnected == sock = 0 \/ ~isConnected

\* processQueue(): `if (item.retries > 1)`, requeue instead of dropping.
ShouldRequeue_Off(it) == it.retries > 0
ShouldRequeue(it) == it.retries > 1

\* enqueue(): `if (this.queue.length >= CONFIG.messageQueueMaxSize)`.
QueueFull(q) == Len(q) >= messageQueueMaxSize

\* processQueue(): the loop head.  With an empty queue the loop ends and the
\* flag is cleared; otherwise the front item is shifted and sendMessage() is
\* called, which either throws at once (not connected) or awaits the engine.
DrainNext(q) ==
    IF Len(q) = 0
    THEN /\ processing' = FALSE
         /\ drainPc' = "idle"
         /\ item' = NoItem
         /\ queue' = q
         /\ loops' = loops - 1
    ELSE /\ processing' = TRUE
         /\ loops' = loops
         /\ item' = [Head(q) EXCEPT !.tries = @ + 1]
         /\ queue' = Tail(q)
         /\ drainPc' = IF NotConnected THEN "sendRejected" ELSE "sendEngine"

\* enqueue(): `if (!this.processing) this.processQueue()`, and in
\* processQueue(): `if (this.processing) return`.
LoopStarts_Off == TRUE
LoopStarts_Never == FALSE
LoopStarts == ~processing

\* enqueue(to, message, retries); text says whether message is a string.  On
\* a full queue the call logs `message.substring(0, 50)` before it returns
\* false, which throws a TypeError for a message that is not a string.
EnqueueTo(to, r, text) ==
    /\ ~exited
    /\ budget.enq > 0
    /\ budget' = [budget EXCEPT !.enq = @ - 1]
    /\ nextId' = nextId + 1
    /\ IF QueueFull(queue)
       THEN /\ rejected' = rejected \cup {nextId}
            /\ UNCHANGED qVars
       ELSE LET q1 == Append(queue, [id |-> nextId, retries |-> r, n0 |-> r, tries |-> 0, to |-> to])
            IN /\ rejected' = rejected
               /\ IF LoopStarts
                  THEN \* processQueue() runs up to its first await
                       /\ processing' = TRUE
                       /\ item' = [Head(q1) EXCEPT !.tries = @ + 1]
                       /\ queue' = Tail(q1)
                       /\ drainPc' = IF NotConnected THEN "sendRejected" ELSE "sendEngine"
                       /\ loops' = loops + 1
                  ELSE /\ queue' = q1
                       /\ UNCHANGED <<processing, drainPc, item, loops>>
               /\ UNCHANGED drainWake
    /\ UNCHANGED <<botVars, storeVars, now, exited, timers, tasks, finished, cHist>>

\* enqueue() for a recipient the model does not follow.
EnqueueCall(r, text) == EnqueueTo(UserBr, r, text)

\* An enqueue() call of the auto-reply handler or of any other caller.
Enqueue(r, text) ==
    /\ EnqueueCall(r, text)
    /\ step' = [NoStep EXCEPT !.op = "enqueue", !.ok = ~QueueFull(queue),
                              !.threw = QueueFull(queue) /\ ~text, !.len = Len(queue)]

\* The engine emits messages.upsert for a message of `from`: the handler
\* returns for an own message, for a type other than 'notify' and for a
\* message without text; else it posts to the webhook, if one is configured
\* (an await whose outcome changes nothing here), and calls
\* `messageQueue.enqueue(from, replyText)` with the default retries.
Skipped(fromMe, type, hasText) == fromMe \/ type /= "notify" \/ ~hasText

MessagesUpsert(from, fromMe, type, hasText) ==
    /\ sock /= 0
    /\ IF Skipped(fromMe, type, hasText)
       THEN /\ ~exited
            /\ budget.enq > 0
            /\ budget' = [budget EXCEPT !.enq = @ - 1]
            /\ step' = [NoStep EXCEPT !.op = "upsertSkipped", !.rcpt = from]
            /\ UNCHANGED <<qVars, botVars, storeVars, now, exited, timers, tasks,
                           qHist, cHist>>
       ELSE /\ EnqueueTo(from, defaultRetries, TRUE)
            /\ step' = [NoStep EXCEPT !.op = "autoReply", !.ok = ~QueueFull(queue),
                                      !.len = Len(queue), !.rcpt = from]

\* The fields of a request body: absent or falsy, a string, or another
\* truthy value.
Fields == {"missing", "text", "other"}

\* POST /send-message before it enqueues: `if (!to || !message)` answers 400,
\* then `if (!this.isConnected || !this.sock)` answers 503; 0 when the
\* handler goes on to enqueue().
Refusal_Off(to, msg) ==
    IF ~isConnected \/ sock = 0 THEN 503
    ELSE IF to = "missing" \/ msg = "missing" THEN 400
    ELSE 0
Refusal_Open(to, msg) == IF to = "missing" \/ msg = "missing" THEN 400 ELSE 0
Refusal(to, msg) ==
    IF to = "missing" \/ msg = "missing" THEN 400
    ELSE IF ~isConnected \/ sock = 0 THEN 503
    ELSE 0

\* POST /send-message after enqueue(): 503 when it returned false, 200 with
\* `to: toWhatsAppJID(to)` otherwise; the catch block answers 500 when
\* enqueue() threw on a message that is no string or toWhatsAppJID() on a
\* number that is no string.
Replied(to, msg, full) ==
    IF full
    THEN (IF msg = "text" THEN 503 ELSE 500)
    ELSE (IF to = "text" THEN 200 ELSE 500)

\* POST /send-message with body {to, message}.
PostSendMessage(to, msg) ==
    /\ ~exited
    /\ IF Refusal(to, msg) /= 0
       THEN /\ step' = [NoStep EXCEPT !.op = "respond", !.route = "send", !.to = to,
                                      !.msg = msg, !.status = Refusal(to, msg)]
            /\ UNCHANGED <<qVars, botVars, storeVars, envVars, qHist, cHist>>
       ELSE /\ EnqueueCall(defaultRetries, msg = "text")
            /\ step' = [NoStep EXCEPT !.op = "respond", !.route = "send", !.to = to,
                                      !.msg = msg, !.len = Len(queue),
                                      !.status = Replied(to, msg, QueueFull(queue))]

\* GET /health: `const statusCode = this.isConnected ? 200 : 503`.
HealthStatus_Off(connected) == 200
HealthStatus(connected) == IF connected THEN 200 ELSE 503

\* GET /health: the body reports connected and queueSize.
GetHealth ==
    /\ ~exited
    /\ step' = [NoStep EXCEPT !.op = "respond", !.route = "health", !.ok = isConnected,
                              !.len = Len(queue), !.status = HealthStatus(isConnected)]
    /\ UNCHANGED <<qVars, botVars, storeVars, envVars, qHist, cHist>>

\* processQueue(): sendMessage() resolved, the item was sent.
SendOk ==
    /\ ~exited
    /\ drainPc = "sendEngine"
    /\ finished' = finished \cup {[id |-> item.id, how |-> "sent", tries |-> item.tries, n0 |-> item.n0]}
    /\ item' = NoItem
    /\ drainPc' = "rateSleep"
    /\ drainWake' = now + rateLimitDelay
    /\ step' = [NoStep EXCEPT !.op = "sent", !.rcpt = item.to,
                              !.jid = toWhatsAppJID(item.to)]
    /\ UNCHANGED <<queue, processing, loops, botVars, storeVars, envVars, nextId, rejected, cHist>>

\* processQueue(): `this.queue.unshift(item)`.
PutBack_Off(it, q) == Append(q, it)
PutBack(it, q) == <<it>> \o q

\* The error processQueue() catches: 'WhatsApp not connected' thrown by
\* sendMessage() itself, or what the engine's send rejected with.
Failure == IF drainPc = "sendRejected" THEN "notConnected" ELSE "engine"

\* processQueue(): sendMessage() threw (not connected, or the engine failed).
SendFail ==
    /\ ~exited
    /\ drainPc \in {"sendEngine", "sendRejected"}
    /\ IF ShouldRequeue(item)
       THEN /\ queue' = PutBack([item EXCEPT !.retries = @ - 1], queue)
            /\ drainPc' = "retrySleep"
            /\ drainWake' = now + messageRetryDelay
            /\ finished' = finished
            /\ step' = [NoStep EXCEPT !.op = "requeued", !.reason = Failure]
       ELSE /\ queue' = queue
            /\ drainPc' = "rateSleep"
            /\ drainWake' = now + rateLimitDelay
            /\ finished' = finished \cup {[id |-> item.id, how |-> "dropped", tries |-> item.tries, n0 |-> item.n0]}
            /\ step' = [NoStep EXCEPT !.op = "dropped", !.reason = Failure]
    /\ item' = NoItem
    /\ UNCHANGED <<processing, loops, botVars, storeVars, envVars, nextId, rejected, cHist>>

\* processQueue(): `await sleep(CONFIG.messageRetryDelay)` is over.
RetrySleepDone ==
    /\ ~exited
    /\ drainPc = "retrySleep"
    /\ now >= drainWake
    /\ drainPc' = "rateSleep"
    /\ drainWake' = now + rateLimitDelay
    /\ step' = NoStep
    /\ UNCHANGED <<queue, processing, item, loops, botVars, storeVars, envVars, qHist, cHist>>

\* processQueue(): `await sleep(100)` is over, back to the loop head.
RateSleepDone ==
    /\ ~exited
    /\ drainPc = "rateSleep"
    /\ now >= drainWake
    /\ DrainNext(queue)
    /\ step' = NoStep
    /\ UNCHANGED <<drainWake, botVars, storeVars, envVars, qHist, cHist>>

(***************************************************************************)
(* connection.update handler                                               *)
(***************************************************************************)

\* `if (now - this.lastQRTime < CONFIG.qrDebounceMs)`
Debounced_Off(n, lastT) == n - lastT <= qrDebounceMs
Debounced(n, lastT) == n - lastT < qrDebounceMs

\* `lastDisconnect?.error instanceof Boom ? statusCode !== loggedOut : true`
ShouldReconnect(reason) == reason /= "loggedOut"
IsLoggedOut(reason) == reason = "loggedOut"

\* `if (shouldReconnect && !this.isShuttingDown)`
ArmsReconnect(reason) == ShouldReconnect(reason) /\ ~isShuttingDown

\* The record of a handler of event t that returns (or rejects: threw).
Returned(t, armed, debounced, threw) ==
    [NoStep EXCEPT !.op = "returned", !.conn = t.conn, !.reason = t.reason,
                   !.qr = (t.qr /= 0), !.debounced = debounced, !.armed = armed,
                   !.sd = isShuttingDown, !.threw = threw]

\* A logout whose handler has run its logout branch to the end is on record.
NoteLogout(t) ==
    loggedOutVer' = IF t.conn = "close" /\ IsLoggedOut(t.reason)
                    THEN Max(loggedOutVer, memVer) ELSE loggedOutVer

\* The end of the close branch: the reconnect timer is armed or not, and the
\* handler returns.
ReconnectDecision(t) ==
    /\ tasks' = Drop(t)
    /\ NoteLogout(t)
    /\ snap' = snap
    /\ IF ArmsReconnect(t.reason)
       THEN /\ timers' = Append(timers, [kind |-> "reconnect", due |-> now + reconnectDelay])
            /\ step' = Returned(t, 1, FALSE, FALSE)
       ELSE /\ timers' = timers
            /\ step' = Returned(t, 0, FALSE, FALSE)

\* The handler from `if (connection === 'close')` on, up to its next await
\* or its end; q is this.qrCodeBase64 as the qr branch has left it.
ConnPart(t, q) ==
    IF t.conn = "close"
    THEN /\ isConnected' = FALSE
         /\ qrCodeBase64' = NoQR
         /\ IF IsLoggedOut(t.reason)
            THEN \* `await fs.rm(CONFIG.sessionPath, ...)`
                 /\ tasks' = Replace(t, [t EXCEPT !.pc = "rm"])
                 /\ step' = NoStep
                 /\ UNCHANGED <<timers, loggedOutVer, snap>>
            ELSE ReconnectDecision(t)
    ELSE /\ isConnected' = (t.conn = "open" \/ isConnected)
         /\ qrCodeBase64' = IF t.conn = "open" THEN NoQR ELSE q
         /\ timers' = timers
         /\ tasks' = Drop(t)
         /\ UNCHANGED <<loggedOutVer, snap>>
         /\ step' = Returned(t, 0, FALSE, FALSE)

\* The engine emits connection.update{connection, lastDisconnect, qr}; the
\* handler runs up to its first await.
ConnectionUpdate(conn, reason, hasQr) ==
    /\ ~exited
    /\ sock /= 0
    /\ budget.events > 0
    /\ reason /= "none" => conn = "close"
    /\ budget' = [budget EXCEPT !.events = @ - 1]
    /\ LET t == [Task("update", "start") EXCEPT
                    !.conn = conn, !.reason = reason,
                    !.qr = IF hasQr THEN now ELSE 0]
       IN IF hasQr
          THEN /\ prevQrAt' = now
               /\ IF Debounced(now, lastQRTime)
                  THEN \* `return`
                       /\ step' = [Returned(t, 0, TRUE, FALSE) EXCEPT
                                      !.accepted = FALSE,
                                      !.sincePrev = now - prevQrAt,
                                      !.sinceAccepted = now - lastQRTime]
                       /\ UNCHANGED <<lastQRTime, isConnected, qrCodeBase64, timers, tasks,
                                      loggedOutVer, snap>>
                  ELSE \* `await QRCode.toDataURL(qr, ...)`
                       /\ lastQRTime' = now
                       /\ tasks' = Add([t EXCEPT !.pc = "render"])
                       /\ step' = [NoStep EXCEPT !.op = "challenge", !.qr = TRUE,
                                      !.accepted = TRUE,
                                      !.sincePrev = now - prevQrAt,
                                      !.sinceAccepted = now - lastQRTime]
                       /\ UNCHANGED <<isConnected, qrCodeBase64, timers, loggedOutVer, snap>>
          ELSE /\ ConnPart(t, qrCodeBase64)
               /\ UNCHANGED <<lastQRTime, prevQrAt>>
    /\ UNCHANGED <<qVars, sock, isShuttingDown, authReady, memVer, storeVars,
                   now, exited, qHist>>

\* `await QRCode.toDataURL(qr)` settles; the handler goes on to the
\* connection part.
RenderDone(t, ok) ==
    /\ ~exited
    /\ t.kind = "update" /\ t.pc = "render"
    /\ MayFail(ok)
    /\ Charge(ok)
    /\ ConnPart(t, IF ok THEN Render(t.qr) ELSE qrCodeBase64)
    /\ UNCHANGED <<qVars, sock, isShuttingDown, lastQRTime, authReady, memVer, storeVars,
                   now, exited, qHist, prevQrAt>>

(***************************************************************************)
(* Continuations: what a suspended handler does when the call it awaits    *)
(* settles, up to its next await.                                          *)
(***************************************************************************)

\* The handler stays suspended, now as t2.
Stay(t, t2) ==
    /\ tasks' = Replace(t, t2)
    /\ step' = NoStep
    /\ UNCHANGED <<timers, isConnected, qrCodeBase64, exited, loggedOutVer, snap>>

\* shutdown(): `await this.sock.end()`, whose close event the handler takes
\* at once, then `await sessionLock.releaseLock()`.
CloseSocketThenRelease(t) ==
    LET c == [Task("update", "start") EXCEPT !.conn = "close"]
    IN /\ tasks' = Replace(t, [t EXCEPT !.pc = "release", !.op = "none", !.attempt = 0])
       /\ IF sock /= 0
          THEN /\ isConnected' = FALSE
               /\ qrCodeBase64' = NoQR
               /\ IF ArmsReconnect(c.reason)
                  THEN /\ timers' = Append(timers, [kind |-> "reconnect", due |-> now + reconnectDelay])
                       /\ step' = Returned(c, 1, FALSE, FALSE)
                  ELSE /\ timers' = timers
                       /\ step' = Returned(c, 0, FALSE, FALSE)
          ELSE /\ step' = NoStep
               /\ UNCHANGED <<isConnected, qrCodeBase64, timers>>
       /\ UNCHANGED <<exited, loggedOutVer, snap>>

\* The session store function that handler t awaits has returned.
Done(t) ==
    IF t.kind = "update"
    THEN \* the logout branch is over
         /\ ReconnectDecision(t)
         /\ UNCHANGED <<isConnected, qrCodeBase64, exited>>
    ELSE IF t.kind = "creds"
    THEN /\ tasks' = Drop(t)
         /\ step' = [NoStep EXCEPT !.op = "uploaded"]
         /\ UNCHANGED <<timers, isConnected, qrCodeBase64, exited, loggedOutVer, snap>>
    ELSE IF t.kind = "shutdown"
    THEN CloseSocketThenRelease(t)
    ELSE IF t.kind = "call"
    THEN \* a direct call of the function returns
         /\ tasks' = Drop(t)
         /\ step' = [NoStep EXCEPT !.op = (IF t.op = "upload" THEN "uploadDone"
                                           ELSE IF t.op = "download" THEN "downloadDone"
                                           ELSE IF t.op = "clear" THEN "clearDone"
                                           ELSE "operationDone"),
                                   !.attempt = t.attempt, !.max = t.max]
         /\ snap' = IF t.op = "upload"
                    THEN [n |-> IF snap.n > 0 /\ snap.local = local THEN snap.n + 1 ELSE 1,
                          remote |-> remote', local |-> local]
                    ELSE snap
         /\ UNCHANGED <<timers, isConnected, qrCodeBase64, exited, loggedOutVer>>
    ELSE \* initialize(): download is over, `await useMultiFileAuthState()`
         Stay(t, [t EXCEPT !.pc = "auth", !.op = "none", !.attempt = 0, !.todo = <<>>])

\* The call that handler t awaits has thrown to the handler.
Throw(t) ==
    IF t.kind = "update"
    THEN \* no try/catch around clearSessionFromBucket(): the handler rejects
         /\ tasks' = Drop(t)
         /\ step' = Returned(t, 0, FALSE, TRUE)
         /\ UNCHANGED <<timers, isConnected, qrCodeBase64, exited, loggedOutVer, snap>>
    ELSE IF t.kind = "creds"
    THEN \* caught and logged
         /\ tasks' = Drop(t)
         /\ step' = NoStep
         /\ UNCHANGED <<timers, isConnected, qrCodeBase64, exited, loggedOutVer, snap>>
    ELSE IF t.kind = "shutdown"
    THEN \* caught and logged, shutdown() returns, gracefulShutdown exits
         /\ tasks' = Drop(t)
         /\ exited' = TRUE
         /\ step' = [NoStep EXCEPT !.op = "exit", !.threw = TRUE]
         /\ UNCHANGED <<timers, isConnected, qrCodeBase64, loggedOutVer, snap>>
    ELSE IF t.kind = "call"
    THEN \* a direct call of the function rejects
         /\ tasks' = Drop(t)
         /\ step' = [NoStep EXCEPT !.op = "callFailed", !.threw = TRUE,
                                   !.attempt = t.attempt, !.max = t.max]
         /\ UNCHANGED <<timers, isConnected, qrCodeBase64, exited, loggedOutVer, snap>>
    ELSE \* initialize(): `setTimeout(() => this.initialize(), 10000)`
         /\ tasks' = Drop(t)
         /\ timers' = Append(timers, [kind |-> "initRetry", due |-> now + initRetryDelay])
         /\ step' = NoStep
         /\ UNCHANGED <<isConnected, qrCodeBase64, exited, loggedOutVer, snap>>

\* withRetry(): `if (attempt === maxRetries)`, the error is thrown on.
LastAttempt_Off(t) == t.attempt >= t.max - 1
LastAttempt(t) == t.attempt = t.max

\* withRetry(): the operation threw on attempt t.attempt.
Retry_Off(t, rand) == Done(t)
Retry(t, rand) ==
    IF LastAttempt(t)
    THEN Throw(t)
    ELSE Stay(t, [t EXCEPT !.pc = "backoff", !.todo = <<>>, !.val = 0,
                           !.wake = now + getBackoffDelay(t.attempt, rand)])

\* What a step of a session store function leaves alone besides the store.
stepRest == <<qVars, sock, isShuttingDown, lastQRTime, authReady, memVer, lockObj, holders,
              now, qHist, prevQrAt>>

RandChoices == {0, 999}

\* The first await of each session store function.
FirstPc(op) == IF op = "download" THEN "mkdir" ELSE IF op = "operation" THEN "run" ELSE "list"

\* withRetry(): `await sleep(delay)` is over, the next attempt starts.
BackoffDone(t) ==
    /\ ~exited
    /\ t.pc = "backoff"
    /\ now >= t.wake
    /\ Stay(t, [t EXCEPT !.pc = FirstPc(t.op), !.attempt = @ + 1, !.wake = 0])
    /\ UNCHANGED <<stepRest, storeVars, budget>>

\* withRetry(operation, operationName, maxRetries) is called with any
\* operation: `return await operation()` settles, ok or not.
OperationSettled(t, ok, rand) ==
    /\ ~exited
    /\ t.kind = "call" /\ t.op = "operation" /\ t.pc = "run"
    /\ MayFail(ok)
    /\ Charge(ok)
    /\ IF ok THEN Done(t) ELSE Retry(t, rand)
    /\ UNCHANGED <<stepRest, localDir, local, remote>>

(***************************************************************************)
(* clearSessionFromBucket(), and the logout branch that calls it           *)
(***************************************************************************)

\* `await fs.rm(CONFIG.sessionPath, {recursive, force})` settles.
RmDone(t, ok) ==
    /\ ~exited
    /\ t.kind = "update" /\ t.pc = "rm"
    /\ MayFail(ok)
    /\ Charge(ok)
    /\ IF ok
       THEN /\ localDir' = FALSE
            /\ local' = NoFiles
            /\ Stay(t, [t EXCEPT !.pc = "mkdir"])
       ELSE \* caught and logged; clearSessionFromBucket() is called
            /\ UNCHANGED <<localDir, local>>
            /\ Stay(t, [t EXCEPT !.pc = "list", !.op = "clear", !.attempt = 1])
    /\ UNCHANGED <<stepRest, remote>>

\* `await fs.mkdir(CONFIG.sessionPath, {recursive})` settles;
\* clearSessionFromBucket() is called.
MkdirDone(t, ok) ==
    /\ ~exited
    /\ t.kind = "update" /\ t.pc = "mkdir"
    /\ MayFail(ok)
    /\ Charge(ok)
    /\ localDir' = (ok \/ localDir)
    /\ Stay(t, [t EXCEPT !.pc = "list", !.op = "clear", !.attempt = 1])
    /\ UNCHANGED <<stepRest, local, remote>>

\* `await bucket.getFiles({prefix})` settles.
ClearList(t, ok, rand) ==
    /\ ~exited
    /\ t.op = "clear" /\ t.pc = "list"
    /\ MayFail(ok)
    /\ Charge(ok)
    /\ IF ~ok
       THEN Retry(t, rand)
       ELSE IF SessionFiles(BucketNames) = <<>>
       THEN Done(t)
       ELSE Stay(t, [t EXCEPT !.pc = "delete", !.todo = SessionFiles(BucketNames)])
    /\ UNCHANGED <<stepRest, storeVars>>

\* `await file.delete()` settles.
ClearDelete(t, ok, rand) ==
    /\ ~exited
    /\ t.op = "clear" /\ t.pc = "delete"
    /\ MayFail(ok)
    /\ Charge(ok)
    /\ LET f == Head(t.todo)
       IN IF ok /\ ObjectAt(f) /= NoFile
          THEN /\ remote' = IF f = LockName THEN remote ELSE [remote EXCEPT ![f] = NoFile]
               /\ lockObj' = IF f = LockName THEN NoLock ELSE lockObj
               /\ IF Len(t.todo) = 1
                  THEN Done(t)
                  ELSE Stay(t, [t EXCEPT !.todo = Tail(@)])
          ELSE \* a failed call, or 404: the object is gone already
               /\ UNCHANGED <<remote, lockObj>>
               /\ Retry(t, rand)
    /\ UNCHANGED <<qVars, sock, isShuttingDown, lastQRTime, authReady, memVer, holders,
                   now, qHist, prevQrAt, localDir, local>>

(***************************************************************************)
(* uploadSessionToBucket(), saveCreds and the creds.update handler         *)
(***************************************************************************)

\* The engine changed the credentials and emits creds.update; the handler
\* calls `await this.saveCreds()`.
CredsUpdate ==
    /\ ~exited
    /\ sock /= 0
    /\ budget.events > 0
    /\ budget' = [budget EXCEPT !.events = @ - 1]
    /\ memVer' = memVer + 1
    /\ tasks' = Add([Task("creds", "save") EXCEPT !.val = memVer + 1])
    /\ step' = NoStep
    /\ UNCHANGED <<qVars, sock, isConnected, qrCodeBase64, isShuttingDown, lastQRTime,
                   authReady, storeVars, now, exited, timers, qHist, cHist>>

\* `await this.saveCreds()` settles: creds.json is written, or the write
\* fails for want of the directory; then uploadSessionToBucket() is called.
SaveDone(t) ==
    /\ ~exited
    /\ t.pc = "save"
    /\ IF localDir
       THEN /\ local' = [local EXCEPT !["creds.json"] = t.val]
            /\ Stay(t, [t EXCEPT !.pc = "list", !.op = "upload", !.attempt = 1, !.val = 0])
       ELSE /\ local' = local
            /\ Throw(t)
    /\ UNCHANGED <<stepRest, localDir, remote, budget>>

\* bucket.upload(localPath) is called for the front file of t.todo: the file
\* is read now, the object is written when the call settles.
Uploaded_Off(f) == local[f] + (now - BootTime) \div TickMs
Uploaded(f) == local[f]

StartPut(t, files, rand) ==
    IF local[Head(files)] = NoFile
    THEN Retry(t, rand)
    ELSE Stay(t, [t EXCEPT !.pc = "put", !.todo = files, !.val = Uploaded(Head(files))])

\* `await fs.access(CONFIG.sessionPath)` and `await listLocalFiles()` settle.
UploadList(t, rand) ==
    /\ ~exited
    /\ t.op = "upload" /\ t.pc = "list"
    /\ UNCHANGED <<stepRest, storeVars, budget>>
    /\ IF ~localDir \/ ListOf(local) = <<>>
       THEN Done(t)
       ELSE StartPut(t, ListOf(local), rand)

\* `await bucket.upload(localPath, {destination})` settles.
UploadPut(t, ok, rand) ==
    /\ ~exited
    /\ t.op = "upload" /\ t.pc = "put"
    /\ MayFail(ok)
    /\ Charge(ok)
    /\ IF ok
       THEN /\ remote' = [remote EXCEPT ![Head(t.todo)] = t.val]
            /\ IF Len(t.todo) = 1
               THEN Done(t)
               ELSE StartPut(t, Tail(t.todo), rand)
       ELSE /\ remote' = remote
            /\ Retry(t, rand)
    /\ UNCHANGED <<stepRest, localDir, local>>

(***************************************************************************)
(* downloadSessionFromBucket() and initialize()                            *)
(***************************************************************************)

\* The credentials initAuthCreds() makes when no creds.json is found.
FreshVer == 2

\* connectToWhatsApp(): `this.sock = makeWASocket(...)`.
NewSock == sock + 1

(***************************************************************************)
(* SessionLock: acquireLock() and releaseLock()                            *)
(***************************************************************************)

\* The instance that runs handler t.
Inst(t) == IF t.kind = "peer" THEN Peer ELSE Me

\* `Date.now() - lockData.timestamp > lockData.ttl`, the ttl of every record
\* being CONFIG.lockTtlMs.
Expired_Off(rec, n) == n - rec.at >= lockTtlMs
Expired_NoTtl(rec, n) == n - rec.at > 0
Expired(rec, n) == n - rec.at > lockTtlMs

\* acquireLock() is called: lockData is built with `timestamp: Date.now()`
\* and `await file.save(..., ifGenerationMatch: 0)` is pending.
StartAcquire(kind) ==
    [Task(kind, "create") EXCEPT !.op = "acquire", !.wake = now]

Without(inst) == {h \in holders : h.inst /= inst}

\* The outermost acquireLock() returns res: initialize() goes on to
\* `await fs.mkdir(sessionPath)` whatever res is ("continuing anyway").
AcquireReturned(t, res) ==
    /\ holders' = IF res
                  THEN Without(Inst(t)) \cup {[inst |-> Inst(t), at |-> t.wake]}
                  ELSE holders
    /\ step' = [NoStep EXCEPT !.op = "acquired", !.ok = res, !.inst = Inst(t),
                             !.stale = (\E i \in DOMAIN t.frames : t.frames[i] = "try")]
    /\ tasks' = IF t.kind = "peer"
                THEN Drop(t)
                ELSE Replace(t, Task("init", "initMkdir"))
    /\ UNCHANGED <<timers, isConnected, qrCodeBase64, exited, loggedOutVer, snap>>

\* The frames of acquireLock() that called acquireLock() again, innermost
\* last: "try" if the call is the one after `if (... > lockData.ttl)`, inside
\* the inner try; "catch" if it is the one of `catch (parseError)`.  A throw
\* leaves the frames that are in their catch block.
RECURSIVE Unwound(_)
Unwound(frames) ==
    IF frames /= <<>> /\ frames[Len(frames)] = "catch"
    THEN Unwound(SubSeq(frames, 1, Len(frames) - 1))
    ELSE frames

\* file.save() threw an error other than 412: `throw error`.  A frame that
\* is in its inner try catches it as parseError and breaks the lock again;
\* with no such frame the error reaches initialize().
AcquireThrew(t) ==
    LET fs == Unwound(t.frames)
    IN /\ holders' = holders
       /\ IF fs = <<>>
          THEN IF t.kind = "peer"
               THEN /\ tasks' = Drop(t)
                    /\ step' = NoStep
                    /\ UNCHANGED <<timers, isConnected, qrCodeBase64, exited,
                                   loggedOutVer, snap>>
               ELSE Throw(t)
          ELSE Stay(t, [t EXCEPT !.pc = "break",
                                 !.frames = SubSeq(fs, 1, Len(fs) - 1) \o <<"catch">>])

lockRest == <<qVars, sock, isShuttingDown, lastQRTime, authReady, memVer,
              localDir, local, remote, now, qHist, prevQrAt>>

\* `await file.save(JSON.stringify(lockData), {ifGenerationMatch: 0})`
\* settles: the object is created and every frame returns true, or the
\* object is there (412) and `await file.download()` follows, or the call
\* fails otherwise.
LockCreate(t, ok) ==
    /\ ~exited
    /\ t.op = "acquire" /\ t.pc = "create"
    /\ MayFail(ok)
    /\ Charge(ok)
    /\ IF ~ok
       THEN /\ lockObj' = lockObj
            /\ AcquireThrew(t)
       ELSE IF lockObj = NoLock
       THEN /\ lockObj' = [holder |-> Inst(t), at |-> t.wake]
            /\ AcquireReturned(t, TRUE)
       ELSE /\ lockObj' = lockObj
            /\ holders' = holders
            /\ Stay(t, [t EXCEPT !.pc = "read"])
    /\ UNCHANGED lockRest

\* `await file.download()` settles and the record is judged: not expired,
\* every frame returns false; expired, `await this.releaseLock()` of the
\* inner try; the download failed (the object may be gone by now),
\* `await this.releaseLock()` of `catch (parseError)`.
LockRead(t, ok) ==
    /\ ~exited
    /\ t.op = "acquire" /\ t.pc = "read"
    /\ MayFail(ok)
    /\ Charge(ok)
    /\ lockObj' = lockObj
    /\ IF ok /\ lockObj /= NoLock
       THEN IF Expired(lockObj, now)
            THEN /\ holders' = holders
                 /\ Stay(t, [t EXCEPT !.pc = "break", !.frames = Append(@, "try")])
            ELSE AcquireReturned(t, FALSE)
       ELSE /\ holders' = holders
            /\ Stay(t, [t EXCEPT !.pc = "break", !.frames = Append(@, "catch")])
    /\ UNCHANGED lockRest

\* `await file.delete()` of releaseLock() settles (an error is caught and
\* logged, 404 silently) and acquireLock() is called again.
LockBreak(t, ok) ==
    /\ ~exited
    /\ t.op = "acquire" /\ t.pc = "break"
    /\ MayFail(ok)
    /\ Charge(ok)
    /\ lockObj' = IF ok THEN NoLock ELSE lockObj
    /\ holders' = holders
    /\ Stay(t, [t EXCEPT !.pc = "create", !.wake = now])
    /\ UNCHANGED lockRest

\* The peer instance starts: its initialize() calls acquireLock().
PeerAcquire ==
    /\ ~exited
    /\ budget.peers > 0
    /\ \A t \in BagToSet(tasks) : t.kind /= "peer"
    /\ budget' = [budget EXCEPT !.peers = @ - 1]
    /\ tasks' = Add(StartAcquire("peer"))
    /\ step' = NoStep
    /\ UNCHANGED <<qVars, botVars, storeVars, now, exited, timers, qHist, cHist>>

\* The peer instance shuts down: its releaseLock() deletes the object.
PeerRelease ==
    /\ ~exited
    /\ budget.peers > 0
    /\ \A t \in BagToSet(tasks) : t.kind /= "peer"
    /\ budget' = [budget EXCEPT !.peers = @ - 1]
    /\ lockObj' = NoLock
    /\ holders' = Without(Peer)
    /\ step' = [NoStep EXCEPT !.op = "released", !.inst = Peer]
    /\ UNCHANGED <<qVars, botVars, localDir, local, remote, now, exited, timers,
                   tasks, qHist, cHist>>

\* `await fs.mkdir(CONFIG.sessionPath)` of initialize() settles;
\* downloadSessionFromBucket() is called.
InitMkdirDone(t) ==
    /\ ~exited
    /\ t.kind = "init" /\ t.pc = "initMkdir"
    /\ localDir' = TRUE
    /\ Stay(t, [t EXCEPT !.pc = "mkdir", !.op = "download", !.attempt = 1])
    /\ UNCHANGED <<stepRest, local, remote, budget>>

\* `await fs.mkdir(CONFIG.sessionPath)` of the download settles.
DownloadMkdir(t) ==
    /\ ~exited
    /\ t.op = "download" /\ t.pc = "mkdir"
    /\ localDir' = TRUE
    /\ Stay(t, [t EXCEPT !.pc = "list"])
    /\ UNCHANGED <<stepRest, local, remote, budget>>

\* `await bucket.getFiles({prefix})` settles.
DownloadList(t, ok, rand) ==
    /\ ~exited
    /\ t.op = "download" /\ t.pc = "list"
    /\ MayFail(ok)
    /\ Charge(ok)
    /\ IF ~ok
       THEN Retry(t, rand)
       ELSE IF SessionFiles(BucketNames) = <<>>
       THEN Done(t)
       ELSE Stay(t, [t EXCEPT !.pc = "get", !.todo = SessionFiles(BucketNames)])
    /\ UNCHANGED <<stepRest, storeVars>>

\* `await file.download({destination})` settles.
DownloadGet(t, ok, rand) ==
    /\ ~exited
    /\ t.op = "download" /\ t.pc = "get"
    /\ MayFail(ok)
    /\ Charge(ok)
    /\ LET f == Head(t.todo)
       IN IF ok /\ ObjectAt(f) /= NoFile /\ localDir
          THEN /\ local' = Written(f, ObjectAt(f))
               /\ IF Len(t.todo) = 1
                  THEN Done(t)
                  ELSE Stay(t, [t EXCEPT !.todo = Tail(@)])
          ELSE /\ local' = local
               /\ Retry(t, rand)
    /\ UNCHANGED <<stepRest, localDir, remote>>

\* uploadSessionToBucket() is called, the call before it having returned.
CallUpload ==
    /\ ~exited
    /\ budget.calls > 0
    /\ tasks = EmptyBag
    /\ budget' = [budget EXCEPT !.calls = @ - 1]
    /\ tasks' = Add([Task("call", "list") EXCEPT !.op = "upload", !.attempt = 1])
    /\ step' = NoStep
    /\ UNCHANGED <<qVars, botVars, storeVars, now, exited, timers, qHist, cHist>>

\* clearSessionFromBucket() is called, the call before it having returned.
CallClear ==
    /\ ~exited
    /\ budget.calls > 0
    /\ tasks = EmptyBag
    /\ budget' = [budget EXCEPT !.calls = @ - 1]
    /\ tasks' = Add([Task("call", "list") EXCEPT !.op = "clear", !.attempt = 1])
    /\ step' = NoStep
    /\ UNCHANGED <<qVars, botVars, storeVars, now, exited, timers, qHist, cHist>>

\* The process is restarted in a new container, whose session directory is
\* empty, and downloadSessionFromBucket() is called.
Restart ==
    /\ ~exited
    /\ budget.calls > 0
    /\ tasks = EmptyBag
    /\ budget' = [budget EXCEPT !.calls = @ - 1]
    /\ localDir' = FALSE
    /\ local' = [f \in DOMAIN local |-> NoFile]
    /\ tasks' = Add([Task("call", "mkdir") EXCEPT !.op = "download", !.attempt = 1])
    /\ step' = NoStep
    /\ UNCHANGED <<qVars, botVars, remote, lockObj, holders, now, exited, timers,
                   qHist, cHist>>

\* `await useMultiFileAuthState(CONFIG.sessionPath)` settles, then
\* connectToWhatsApp() makes the socket and initialize() returns.
AuthDone(t) ==
    /\ ~exited
    /\ t.kind = "init" /\ t.pc = "auth"
    /\ memVer' = IF local["creds.json"] /= NoFile THEN local["creds.json"] ELSE FreshVer
    /\ authReady' = TRUE
    /\ sock' = NewSock
    /\ tasks' = Drop(t)
    /\ step' = [NoStep EXCEPT !.op = "connect"]
    /\ UNCHANGED <<qVars, isConnected, qrCodeBase64, isShuttingDown, lastQRTime,
                   storeVars, now, exited, timers, budget, qHist, cHist>>

(***************************************************************************)
(* Timers                                                                  *)
(***************************************************************************)
RemoveAt(s, i) == SubSeq(s, 1, i - 1) \o SubSeq(s, i + 1, Len(s))

\* A setTimeout callback runs: the reconnect callback of the close branch,
\* or the retry of initialize().
TimerFire(i) ==
    /\ ~exited
    /\ i \in DOMAIN timers
    /\ timers[i].due <= now
    /\ timers' = RemoveAt(timers, i)
    /\ IF timers[i].kind = "reconnect"
       THEN \* `if (!this.isShuttingDown) this.connectToWhatsApp()`
            /\ sock' = IF ~isShuttingDown THEN NewSock ELSE sock
            /\ step' = IF ~isShuttingDown THEN [NoStep EXCEPT !.op = "connect"] ELSE NoStep
            /\ tasks' = tasks
       ELSE \* `this.initialize()`, up to `await sessionLock.acquireLock()`
            /\ tasks' = Add(StartAcquire("init"))
            /\ step' = NoStep
            /\ sock' = sock
    /\ UNCHANGED <<qVars, isConnected, qrCodeBase64, isShuttingDown, lastQRTime,
                   authReady, memVer, storeVars, now, exited, budget, qHist, cHist>>

(***************************************************************************)
(* shutdown() and gracefulShutdown                                         *)
(***************************************************************************)

\* SIGTERM / SIGINT: gracefulShutdown calls bot.shutdown(), which sets the
\* flag and runs up to its first await.
Signal ==
    /\ ~exited
    /\ budget.signals > 0
    /\ budget' = [budget EXCEPT !.signals = @ - 1]
    /\ isShuttingDown' = TRUE
    /\ LET t == Task("shutdown", "start")
       IN IF authReady
          THEN \* `await this.saveCreds()`
               /\ tasks' = Add([t EXCEPT !.pc = "save", !.val = memVer])
               /\ step' = NoStep
               /\ UNCHANGED <<timers, isConnected, qrCodeBase64, exited, loggedOutVer, snap>>
          ELSE CloseSocketThenRelease(t)
    /\ UNCHANGED <<qVars, sock, lastQRTime, authReady, memVer, storeVars, now,
                   qHist, prevQrAt>>

\* `await file.delete()` of releaseLock() settles (an error is caught and
\* logged); shutdown() returns and gracefulShutdown calls process.exit(0).
ReleaseDone(t, ok) ==
    /\ ~exited
    /\ t.kind = "shutdown" /\ t.pc = "release"
    /\ MayFail(ok)
    /\ Charge(ok)
    /\ lockObj' = IF ok THEN NoLock ELSE lockObj
    /\ holders' = Without(Me)
    /\ tasks' = Drop(t)
    /\ exited' = TRUE
    /\ step' = [NoStep EXCEPT !.op = "exit", !.inst = Me]
    /\ UNCHANGED <<qVars, botVars, localDir, local, remote, now, timers, qHist, cHist>>

(***************************************************************************)
(* Environment                                                             *)
(***************************************************************************)
Tick ==
    /\ ~exited
    /\ budget.ticks > 0
    /\ budget' = [budget EXCEPT !.ticks = @ - 1]
    /\ now' = now + TickMs
    /\ step' = NoStep
    /\ UNCHANGED <<qVars, botVars, storeVars, exited, timers, tasks, qHist, cHist>>

\* The bot as its constructor leaves it, nothing enqueued, nothing logged.
EmptyQueue ==
    /\ queue = <<>>
    /\ processing = FALSE
    /\ drainPc = "idle"
    /\ item = NoItem
    /\ drainWake = 0
    /\ loops = 0
    /\ nextId = 1
    /\ finished = {}
    /\ rejected = {}

ConstructedBot ==
    /\ isConnected = FALSE
    /\ qrCodeBase64 = NoQR
    /\ isShuttingDown = FALSE
    /\ lastQRTime = 0
    /\ now = BootTime
    /\ exited = FALSE
    /\ timers = <<>>
    /\ prevQrAt = 0
    /\ loggedOutVer = 0
    /\ snap = NoSnap
    /\ step = NoStep

Constructed == EmptyQueue /\ ConstructedBot

\* The session a previous run left in the bucket.
OldSession == [f \in Files |-> 1]

\* The state when the script has run: the bot is constructed and
\* initialize() is suspended in acquireLock().  The bucket is empty or holds
\* the session a previous run uploaded.
Init ==
    /\ Constructed
    /\ sock = 0
    /\ authReady = FALSE
    /\ memVer = 0
    /\ localDir = FALSE
    /\ local = NoFiles
    /\ remote \in {NoFiles, OldSession}
    /\ lockObj = NoLock
    /\ holders = {}
    /\ tasks = SetToBag({StartAcquire("init")})
    /\ budget = [NoBudget EXCEPT !.ticks = BootTicks, !.faults = BootFaults,
                                 !.events = BootEvents]

\* The state when initialize() has returned: the lock is held, the session
\* of the bucket (if any) is downloaded and loaded, the socket is made.
Running(session) ==
    /\ sock = 1
    /\ authReady = TRUE
    /\ localDir = TRUE
    /\ lockObj = [holder |-> Me, at |-> BootTime]
    /\ holders = {[inst |-> Me, at |-> BootTime]}
    /\ remote = session
    /\ local = session
    /\ memVer = (IF session["creds.json"] /= NoFile THEN session["creds.json"] ELSE FreshVer)
    /\ tasks = EmptyBag

Conns == {"none", "open", "close"}
Reasons == {"none", "other", "loggedOut"}

\* Steps of the logout branch and of clearSessionFromBucket().
LogoutStep(t, ok, rand) ==
    \/ RmDone(t, ok)
    \/ MkdirDone(t, ok)
    \/ ClearList(t, ok, rand)
    \/ ClearDelete(t, ok, rand)

\* Steps of saveCreds and uploadSessionToBucket().
UploadStep(t, ok, rand) ==
    \/ SaveDone(t)
    \/ UploadList(t, rand)
    \/ UploadPut(t, ok, rand)

\* Steps of initialize() and downloadSessionFromBucket().
InitStep(t, ok, rand) ==
    \/ LockCreate(t, ok)
    \/ LockRead(t, ok)
    \/ LockBreak(t, ok)
    \/ InitMkdirDone(t)
    \/ DownloadMkdir(t)
    \/ DownloadList(t, ok, rand)
    \/ DownloadGet(t, ok, rand)
    \/ AuthDone(t)

\* Start-up: initialize() from the constructed bot, with failing calls.
Next ==
    \/ \E t \in BagToSet(tasks) : \E ok \in BOOLEAN : \E rand \in RandChoices :
          InitStep(t, ok, rand)
    \/ \E t \in BagToSet(tasks) : BackoffDone(t)
    \/ \E i \in DOMAIN timers : TimerFire(i)
    \/ \E c \in {"open", "close"} : ConnectionUpdate(c, "none", FALSE)
    \/ Tick

Spec == Init /\ [][Next]_vars

\* Pairing and reconnecting: every connection.update event, rendering that
\* may fail, the reconnect timers, a termination signal.
InitPair ==
    /\ Constructed
    /\ \E s \in {NoFiles, OldSession} : Running(s)
    /\ budget = [NoBudget EXCEPT !.events = PairEvents, !.ticks = PairTicks,
                                 !.faults = PairFaults, !.signals = 1]

NextPair ==
    \/ \E c \in Conns : \E r \in Reasons : \E q \in BOOLEAN : ConnectionUpdate(c, r, q)
    \/ \E t \in BagToSet(tasks) : \E ok \in BOOLEAN : RenderDone(t, ok)
    \/ \E t \in BagToSet(tasks) : LogoutStep(t, TRUE, 0)
    \/ \E t \in BagToSet(tasks) : UploadStep(t, TRUE, 0)
    \/ \E t \in BagToSet(tasks) : ReleaseDone(t, TRUE)
    \/ \E i \in DOMAIN timers : TimerFire(i)
    \/ Signal
    \/ Tick

SpecPair == InitPair /\ [][NextPair]_vars

\* Pairing challenges alone: connection.update events without a close
\* reason, rendering that may fail, the reconnect timers.
InitChallenge ==
    /\ Constructed
    /\ \E s \in {NoFiles, OldSession} : Running(s)
    /\ budget = [NoBudget EXCEPT !.events = PairEvents, !.ticks = PairTicks,
                                 !.faults = PairFaults]

NextChallenge ==
    \/ \E c \in Conns : \E q \in BOOLEAN : ConnectionUpdate(c, "none", q)
    \/ \E t \in BagToSet(tasks) : \E ok \in BOOLEAN : RenderDone(t, ok)
    \/ \E i \in DOMAIN timers : TimerFire(i)
    \/ Tick

SpecChallenge == InitChallenge /\ [][NextChallenge]_vars

\* The session: logout, credential updates, shutdown, with failing calls.
InitSession ==
    /\ Constructed
    /\ \E s \in {NoFiles, OldSession} : Running(s)
    /\ budget = [NoBudget EXCEPT !.events = SessEvents, !.ticks = SessTicks,
                                 !.faults = SessFaults, !.signals = 1]

NextSession ==
    \/ \E r \in Reasons : \E q \in BOOLEAN : ConnectionUpdate("close", r, q)
    \/ CredsUpdate
    \/ \E t \in BagToSet(tasks) : \E ok \in BOOLEAN : \E rand \in RandChoices :
          \/ LogoutStep(t, ok, rand)
          \/ UploadStep(t, ok, rand)
          \/ RenderDone(t, ok)
          \/ ReleaseDone(t, ok)
    \/ \E t \in BagToSet(tasks) : BackoffDone(t)
    \/ \E i \in DOMAIN timers : TimerFire(i)
    \/ Signal
    \/ Tick

SpecSession == InitSession /\ [][NextSession]_vars

\* The message queue: enqueue() calls, the drain loop, the connection
\* opening and closing.
InitQueue ==
    /\ Constructed
    /\ Running(NoFiles)
    /\ budget = [NoBudget EXCEPT !.enq = QueueEnq, !.events = QueueEvents,
                                 !.ticks = QueueTicks]

NextQueue ==
    \/ \E r \in 1..MaxAttempts : \E text \in BOOLEAN : Enqueue(r, text)
    \/ SendOk
    \/ SendFail
    \/ RetrySleepDone
    \/ RateSleepDone
    \/ \E c \in {"open", "close"} : ConnectionUpdate(c, "none", FALSE)
    \/ \E i \in DOMAIN timers : TimerFire(i)
    \/ Tick

SpecQueue == InitQueue /\ [][NextQueue]_vars

\* The message queue and a termination signal.
InitQueueExit ==
    /\ Constructed
    /\ Running(NoFiles)
    /\ budget = [NoBudget EXCEPT !.enq = QueueEnq, !.events = QueueEvents,
                                 !.ticks = QueueTicks, !.signals = 1]

NextQueueExit ==
    \/ NextQueue
    \/ \E t \in BagToSet(tasks) : UploadStep(t, TRUE, 0)
    \/ \E t \in BagToSet(tasks) : ReleaseDone(t, TRUE)
    \/ Signal

SpecQueueExit == InitQueueExit /\ [][NextQueueExit]_vars

\* The full queue.  While the bot is not connected, message 1 was enqueued,
\* failed once and was put back, and messages 2..messageQueueMaxSize were
\* enqueued during the retry sleep, all with the default `retries = 3`.
FullQueue ==
    /\ queue = [i \in 1..messageQueueMaxSize |->
                   IF i = 1
                   THEN [id |-> 1, retries |-> defaultRetries - 1, n0 |-> defaultRetries,
                         tries |-> 1, to |-> UserBr]
                   ELSE [id |-> i, retries |-> defaultRetries, n0 |-> defaultRetries,
                         tries |-> 0, to |-> UserBr]]
    /\ processing = TRUE
    /\ drainPc = "retrySleep"
    /\ item = NoItem
    /\ drainWake = BootTime + messageRetryDelay
    /\ loops = 1
    /\ nextId = messageQueueMaxSize + 1
    /\ finished = {}
    /\ rejected = {}

InitFull ==
    /\ FullQueue
    /\ ConstructedBot
    /\ Running(NoFiles)
    /\ budget = [NoBudget EXCEPT !.enq = FullEnq, !.events = FullEvents,
                                 !.ticks = FullTicks]

NextFull ==
    \/ \E text \in BOOLEAN : Enqueue(defaultRetries, text)
    \/ SendOk
    \/ SendFail
    \/ RetrySleepDone
    \/ RateSleepDone
    \/ \E c \in {"open", "close"} : ConnectionUpdate(c, "none", FALSE)
    \/ \E i \in DOMAIN timers : TimerFire(i)
    \/ Tick

SpecFull == InitFull /\ [][NextFull]_vars

\* Credential updates of a running bot: creds.update events whose handlers
\* save and upload side by side, with a failing call.
InitCreds ==
    /\ Constructed
    /\ \E s \in {NoFiles, OldSession} : Running(s)
    /\ budget = [NoBudget EXCEPT !.events = CredsEvents, !.ticks = CredsTicks,
                                 !.faults = CredsFaults]

NextCreds ==
    \/ CredsUpdate
    \/ \E t \in BagToSet(tasks) : \E ok \in BOOLEAN : \E rand \in RandChoices :
          UploadStep(t, ok, rand)
    \/ \E t \in BagToSet(tasks) : BackoffDone(t)
    \/ Tick

SpecCreds == InitCreds /\ [][NextCreds]_vars

\* The session store of a paired bot, whose session directory may hold the
\* file of the app state collection critical_block: uploads, clears and
\* restarts that download, with a failing call.
InitMirror ==
    /\ Constructed
    /\ sock = 0
    /\ authReady = FALSE
    /\ memVer = 0
    /\ localDir = TRUE
    /\ local \in [Names -> {NoFile, FreshVer}]
    /\ remote \in [Names -> {NoFile, 1}]
    /\ lockObj \in {NoLock, [holder |-> Me, at |-> BootTime]}
    /\ holders = (IF lockObj = NoLock THEN {} ELSE {[inst |-> Me, at |-> BootTime]})
    /\ tasks = EmptyBag
    /\ budget = [NoBudget EXCEPT !.calls = MirrorCalls, !.ticks = MirrorTicks,
                                 !.faults = MirrorFaults]

NextMirror ==
    \/ CallUpload
    \/ CallClear
    \/ Restart
    \/ \E t \in BagToSet(tasks) : \E ok \in BOOLEAN : UploadStep(t, ok, 0)
    \/ \E t \in BagToSet(tasks) : \E ok \in BOOLEAN :
          \/ ClearList(t, ok, 0)
          \/ ClearDelete(t, ok, 0)
    \/ \E t \in BagToSet(tasks) : \E ok \in BOOLEAN :
          \/ DownloadMkdir(t)
          \/ DownloadList(t, ok, 0)
          \/ DownloadGet(t, ok, 0)
    \/ \E t \in BagToSet(tasks) : BackoffDone(t)
    \/ Tick

SpecMirror == InitMirror /\ [][NextMirror]_vars

\* withRetry() called with maxRetries from 1 to RetryMax and an operation
\* that may fail every time it is invoked.
InitRetry ==
    /\ Constructed
    /\ sock = 0
    /\ authReady = FALSE
    /\ memVer = 0
    /\ localDir = FALSE
    /\ local = NoFiles
    /\ remote = NoFiles
    /\ lockObj = NoLock
    /\ holders = {}
    /\ \E m \in 1..RetryMax :
          /\ tasks = SetToBag({[Task("call", "run") EXCEPT !.op = "operation", !.attempt = 1,
                                                          !.max = m]})
          /\ budget = [NoBudget EXCEPT !.ticks = RetryTicks, !.faults = RetryMax]

NextRetry ==
    \/ \E t \in BagToSet(tasks) : \E ok \in BOOLEAN : \E rand \in RandChoices :
          OperationSettled(t, ok, rand)
    \/ \E t \in BagToSet(tasks) : BackoffDone(t)
    \/ Tick

SpecRetry == InitRetry /\ [][NextRetry]_vars

\* What Math.random() returns, in thousandths: both ends and values between.
RandSamples == {0, 1, 500, 999}

\* The backoff of withRetry(): a call with maxRetries of BackoffMax that has
\* reached any attempt before the last one, whose operation fails or not.
InitBackoff ==
    /\ Constructed
    /\ sock = 0
    /\ authReady = FALSE
    /\ memVer = 0
    /\ localDir = FALSE
    /\ local = NoFiles
    /\ remote = NoFiles
    /\ lockObj = NoLock
    /\ holders = {}
    /\ \E k \in 1..(BackoffMax - 1) :
          tasks = SetToBag({[Task("call", "run") EXCEPT !.op = "operation", !.attempt = k,
                                                       !.max = BackoffMax]})
    /\ budget = [NoBudget EXCEPT !.ticks = BackoffTicks, !.faults = 1]

NextBackoff ==
    \/ \E t \in BagToSet(tasks) : \E ok \in BOOLEAN : \E rand \in RandSamples :
          OperationSettled(t, ok, rand)
    \/ \E t \in BagToSet(tasks) : BackoffDone(t)
    \/ Tick

SpecBackoff == InitBackoff /\ [][NextBackoff]_vars

\* The HTTP routes of a running bot, with the queue empty or full, while the
\* connection opens and closes and the drain loop runs.
InitHttp ==
    /\ EmptyQueue \/ FullQueue
    /\ ConstructedBot
    /\ Running(NoFiles)
    /\ budget = [NoBudget EXCEPT !.enq = HttpEnq, !.events = HttpEvents,
                                 !.ticks = HttpTicks]

NextHttp ==
    \/ \E to \in Fields : \E msg \in Fields : PostSendMessage(to, msg)
    \/ GetHealth
    \/ SendOk
    \/ SendFail
    \/ RetrySleepDone
    \/ RateSleepDone
    \/ \E c \in {"open", "close"} : ConnectionUpdate(c, "none", FALSE)
    \/ \E i \in DOMAIN timers : TimerFire(i)
    \/ Tick

SpecHttp == InitHttp /\ [][NextHttp]_vars

\* The bot as main leaves it, initialize() suspended in acquireLock(), and
\* the bucket with lock object lock.
Booting(lock) ==
    /\ sock = 0
    /\ authReady = FALSE
    /\ memVer = 0
    /\ localDir = FALSE
    /\ local = NoFiles
    /\ remote \in {NoFiles, OldSession}
    /\ lockObj = lock
    /\ holders = (IF lock = NoLock THEN {} ELSE {[inst |-> lock.holder, at |-> lock.at]})

\* Start-up with a termination signal: initialize() and its retry timer
\* while shutdown() runs, on a bucket without lock object or with the
\* record a peer wrote one tick ago.
InitStartStop ==
    /\ Constructed
    /\ \E lock \in {NoLock, [holder |-> Peer, at |-> BootTime - TickMs]} : Booting(lock)
    /\ tasks = SetToBag({StartAcquire("init")})
    /\ budget = [NoBudget EXCEPT !.ticks = StopTicks, !.faults = StopFaults,
                                 !.signals = 1]

NextStartStop ==
    \/ \E t \in BagToSet(tasks) : \E ok \in BOOLEAN : InitStep(t, ok, 0)
    \/ \E t \in BagToSet(tasks) : BackoffDone(t)
    \/ \E t \in BagToSet(tasks) : UploadStep(t, TRUE, 0)
    \/ \E t \in BagToSet(tasks) : ReleaseDone(t, TRUE)
    \/ \E i \in DOMAIN timers : TimerFire(i)
    \/ Signal
    \/ Tick

SpecStartStop == InitStartStop /\ [][NextStartStop]_vars

\* shutdown() alone: a termination signal to the running bot, with an
\* upload that may fail on every attempt.
InitShutdown ==
    /\ Constructed
    /\ \E s \in {NoFiles, OldSession} : Running(s)
    /\ budget = [NoBudget EXCEPT !.ticks = ShutTicks, !.faults = ShutFaults,
                                 !.signals = 1]

NextShutdown ==
    \/ \E t \in BagToSet(tasks) : \E ok \in BOOLEAN : \E rand \in RandChoices :
          UploadStep(t, ok, rand)
    \/ \E t \in BagToSet(tasks) : BackoffDone(t)
    \/ \E t \in BagToSet(tasks) : ReleaseDone(t, TRUE)
    \/ Signal
    \/ Tick

SpecShutdown == InitShutdown /\ [][NextShutdown]_vars

\* Two instances start together on a bucket without lock object: both are
\* suspended in the conditional create of acquireLock(); a call may fail.
InitRace ==
    /\ Constructed
    /\ Booting(NoLock)
    /\ tasks = SetToBag({StartAcquire("init"), StartAcquire("peer")})
    /\ budget = [NoBudget EXCEPT !.faults = RaceFaults]

NextRace ==
    \/ \E t \in BagToSet(tasks) : \E ok \in BOOLEAN : InitStep(t, ok, 0)

SpecRace == InitRace /\ [][NextRace]_vars

\* The lock objects an instance may find when it starts: none, or the
\* record of a peer that is one tick old, exactly lockTtlMs old, or older.
LockStates ==
    {NoLock} \cup {[holder |-> Peer, at |-> BootTime - age] :
                      age \in {TickMs, lockTtlMs, lockTtlMs + TickMs}}

\* The session lock: initialize() of this instance against the lock object
\* it finds and a peer that starts and stops, with failing calls.
InitLock ==
    /\ Constructed
    /\ \E lock \in LockStates : Booting(lock)
    /\ tasks = SetToBag({StartAcquire("init")})
    /\ budget = [NoBudget EXCEPT !.ticks = LockTicks, !.faults = LockFaults,
                                 !.peers = LockPeers]

NextLock ==
    \/ \E t \in BagToSet(tasks) : \E ok \in BOOLEAN : InitStep(t, ok, 0)
    \/ \E t \in BagToSet(tasks) : BackoffDone(t)
    \/ PeerAcquire
    \/ PeerRelease
    \/ Tick

SpecLock == InitLock /\ [][NextLock]_vars

\* Two instances start together on a bucket whose lock record, left by an
\* instance that crashed, is older than its ttl; no call fails.
InitStale ==
    /\ Constructed
    /\ Booting([holder |-> Gone, at |-> BootTime - lockTtlMs - TickMs])
    /\ tasks = SetToBag({StartAcquire("init"), StartAcquire("peer")})
    /\ budget = NoBudget

NextStale ==
    \/ \E t \in BagToSet(tasks) : InitStep(t, TRUE, 0)

SpecStale == InitStale /\ [][NextStale]_vars

\* The session store: uploadSessionToBucket() called again and again,
\* restarts that download, with a failing call.  The local directory holds
\* any files; the bucket holds objects of earlier uploads, and the lock.
InitStore ==
    /\ Constructed
    /\ sock = 0
    /\ authReady = FALSE
    /\ memVer = 0
    /\ localDir = TRUE
    /\ local \in [Files -> {NoFile, 1, FreshVer}]
    /\ remote \in [Files -> {NoFile, 1}]
    /\ lockObj \in {NoLock, [holder |-> Me, at |-> BootTime]}
    /\ holders = (IF lockObj = NoLock THEN {} ELSE {[inst |-> Me, at |-> BootTime]})
    /\ tasks = EmptyBag
    /\ budget = [NoBudget EXCEPT !.calls = StoreCalls, !.ticks = StoreTicks,
                                 !.faults = StoreFaults]

NextStore ==
    \/ CallUpload
    \/ Restart
    \/ \E t \in BagToSet(tasks) : \E ok \in BOOLEAN : UploadStep(t, ok, 0)
    \/ \E t \in BagToSet(tasks) : \E ok \in BOOLEAN :
          \/ DownloadMkdir(t)
          \/ DownloadList(t, ok, 0)
          \/ DownloadGet(t, ok, 0)
    \/ \E t \in BagToSet(tasks) : BackoffDone(t)
    \/ Tick

SpecStore == InitStore /\ [][NextStore]_vars

\* Auto-replies: messages.upsert events of every kind of sender, the drain
\* loop, the connection coming up.
UpsertTypes == {"notify", "append"}

InitReply ==
    /\ Constructed
    /\ Running(NoFiles)
    /\ budget = [NoBudget EXCEPT !.enq = ReplyEnq, !.events = ReplyEvents,
                                 !.ticks = ReplyTicks]

NextReply ==
    \/ \E from \in SenderJids : \E fromMe, hasText \in BOOLEAN :
          \E type \in UpsertTypes : MessagesUpsert(from, fromMe, type, hasText)
    \/ SendOk
    \/ SendFail
    \/ RetrySleepDone
    \/ RateSleepDone
    \/ ConnectionUpdate("open", "none", FALSE)
    \/ Tick

SpecReply == InitReply /\ [][NextReply]_vars

(***************************************************************************)
(* Properties                                                              *)
(***************************************************************************)
QueueIds == {queue[i].id : i \in DOMAIN queue}
Accepted == (1..(nextId - 1)) \ rejected

\* C1: a message enqueued with retries = N whose attempts all fail is
\* attempted exactly N times, is dropped on the Nth failure, and is neither
\* queued nor attempted afterwards.  Every item carries the count of its
\* attempts; what is left of its budget and what it has used add up to N.
C1_AttemptsExact ==
    /\ \A f \in finished : f.how = "dropped" => f.tries = f.n0
    /\ \A f \in finished : f.tries >= 1 /\ f.tries <= f.n0
    /\ \A f \in finished : f.id \notin QueueIds /\ f.id /= item.id
    /\ \A f, g \in finished : f.id = g.id => f = g
    /\ \A i \in DOMAIN queue : queue[i].tries + queue[i].retries = queue[i].n0
    /\ item /= NoItem => item.tries + item.retries = item.n0 + 1

\* A message enqueued with retries = MaxAttempts was dropped after that many
\* failed attempts.
C1_Witness == \E f \in finished : f.how = "dropped" /\ f.n0 = MaxAttempts /\ f.tries = MaxAttempts

\* C2: enqueue() called with the queue at or above messageQueueMaxSize
\* returns false, does not throw, and leaves the queue as it was.
C2_Claim ==
    [][(step'.op = "enqueue" /\ Len(queue) >= messageQueueMaxSize)
          => /\ ~step'.ok
             /\ ~step'.threw
             /\ queue' = queue]_vars

\* C3: every accepted message ends as sent or as dropped with the failure
\* logged, also when shutdown comes with messages queued: when the process
\* has exited, every accepted message has its outcome in the log.
C3_Claim == exited => \A id \in Accepted : \E f \in finished : f.id = id

\* C4: once the logout branch has run, no file of the logged-out session is
\* in the bucket under the prefix, in any later state.
C4_Claim == \A f \in Files : remote[f] = NoFile \/ remote[f] > loggedOutVer

LogoutReturned ==
    /\ step.op = "returned"
    /\ step.conn = "close"
    /\ step.reason = "loggedOut"
    /\ ~step.debounced

\* C5: when the handler of a logout close that took the logout branch
\* finishes, the local session directory and the bucket prefix (the lock
\* object apart) are empty.
C5_Claim == LogoutReturned => (local = NoFiles /\ remote = NoFiles)

\* C6: after a logout close has been handled through its logout branch,
\* with no shutdown requested, a connection attempt follows in the running
\* process.  Connection attempts come from initialize() and from reconnect
\* timers only, so one of them is pending when the handler returns.
C6_Claim ==
    (LogoutReturned /\ ~step.threw /\ ~step.sd)
        => \/ \E i \in DOMAIN timers : timers[i].kind = "reconnect"
           \/ \E t \in BagToSet(tasks) : t.kind = "init"

\* C7: whenever the bot is connected, no pairing artifact is exposed.
C7_Claim == isConnected => qrCodeBase64 = NoQR

\* C8: when the handler of a connection.update with connection = close has
\* finished, whatever else the event carried, the bot is disconnected and
\* exposes no pairing artifact.
C8_Claim == (step.op = "returned" /\ step.conn = "close") => (~isConnected /\ qrCodeBase64 = NoQR)

ChallengeArrived == step.op = "challenge" \/ (step.op = "returned" /\ step.debounced)

\* C9 as stated: a pairing challenge that arrives less than qrDebounceMs
\* after the previous pairing challenge event is ignored.
C9_Claim == (ChallengeArrived /\ step.sincePrev < qrDebounceMs) => ~step.accepted

\* C9: a pairing challenge that arrives less than qrDebounceMs after the
\* last challenge that was not debounced changes nothing (the rest of its
\* event is dropped with it); one that arrives at least qrDebounceMs after it
\* resets the debounce timer and is rendered, and when the rendering succeeds
\* for an event without open or close, the rendered challenge is exposed.
C9_Debounce ==
    [][/\ (step'.op = "returned" /\ step'.debounced)
            => /\ now - lastQRTime < qrDebounceMs
               /\ UNCHANGED <<qrCodeBase64, lastQRTime, isConnected, timers, tasks>>
       /\ step'.op = "challenge"
            => /\ now - lastQRTime >= qrDebounceMs
               /\ lastQRTime' = now
               /\ \E t \in BagToSet(tasks') : t.pc = "render" /\ t.qr = now
       /\ \A t \in BagToSet(tasks) :
             (t.pc = "render" /\ t.conn = "none" /\ tasks' = Drop(t) /\ budget' = budget)
                => qrCodeBase64' = Render(t.qr)]_vars

\* A challenge was accepted exactly qrDebounceMs after the last accepted one,
\* though a debounced challenge had arrived in between.
C9_Witness ==
    /\ step.op = "challenge"
    /\ step.sinceAccepted = qrDebounceMs
    /\ step.sincePrev < qrDebounceMs

\* C10: when the handler of a close that is not a logout has finished and
\* shutdown was not requested, it has scheduled one reconnect attempt.
C10_Claim ==
    (step.op = "returned" /\ step.conn = "close" /\ step.reason /= "loggedOut" /\ ~step.sd)
        => step.armed = 1

\* C11: once shutdown() has been invoked, no connection attempt starts: a
\* step that makes an engine socket is never taken with the shutting-down
\* flag set.
C11_Claim == step.op = "connect" => ~isShuttingDown

\* C12: when shutdown() has returned (the process exits), the lock object
\* has been released, whatever the final save and upload did.
C12_Claim == step.op = "exit" => lockObj = NoLock

\* C13: when several instances call acquire() concurrently on an absent
\* lock, exactly one of them returns true: no two instances are holders at
\* once.
C13_Claim == Cardinality({h.inst : h \in holders}) <= 1

\* An acquireLock() call t of the state before a step is at t2 after it.
Moved(t, t2) ==
    /\ t \in BagToSet(tasks)
    /\ CopiesIn(t, tasks') < CopiesIn(t, tasks)
    /\ CopiesIn(t2, tasks') > CopiesIn(t2, tasks)

C15_Claim == [][(step'.op = "exit" /\ lockObj.holder /= Me) => lockObj' = lockObj]_vars

\* C16: a call of acquire() that reads a record which is not expired returns
\* false and leaves the lock object as it is; initialize() of this instance
\* then goes on to `await fs.mkdir(sessionPath)` and the download, with no
\* retry timer armed and the process alive.
C16_Contended ==
    [][/\ \A t \in BagToSet(tasks) :
            (t.op = "acquire" /\ t.pc = "read" /\ lockObj /= NoLock
               /\ now - lockObj.at <= lockTtlMs /\ budget'.faults = budget.faults
               /\ CopiesIn(t, tasks') < CopiesIn(t, tasks))
            => /\ step'.op = "acquired" /\ ~step'.ok /\ step'.inst = Inst(t)
               /\ lockObj' = lockObj
               /\ holders' = holders
       /\ (step'.op = "acquired" /\ ~step'.ok /\ step'.inst = Me)
          => /\ lockObj' = lockObj
             /\ CopiesIn(Task("init", "initMkdir"), tasks') >
                   CopiesIn(Task("init", "initMkdir"), tasks)
             /\ timers' = timers
             /\ ~exited'
      ]_vars

\* This instance, whose acquire() returned false in front of the peer's
\* record, has downloaded the session and makes its engine socket.
C16_Witness ==
    /\ step.op = "connect"
    /\ lockObj.holder = Peer
    /\ now - lockObj.at <= lockTtlMs
    /\ \A h \in holders : h.inst /= Me

\* C17: at every moment at most one instance is a holder of a non-expired
\* lock: its acquire() returned true, it has not called release(), and the
\* ttl of the record it wrote has not elapsed.
C17_Claim ==
    Cardinality({h.inst : h \in {g \in holders : now - g.at <= lockTtlMs}}) <= 1

\* C18: upload() invoked twice in succession with unchanged local files
\* leaves the remote objects, names and contents, after the second call as
\* they were after the first.
C18_Idempotent ==
    [][(step'.op = "uploadDone" /\ snap'.n >= 2)
         => (remote' = snap.remote /\ snap'.remote = snap.remote)]_vars

\* A second call in a row has returned, with files to upload.
C18_Witness ==
    /\ step.op = "uploadDone"
    /\ snap.n = 2
    /\ ListOf(local) /= <<>>
    /\ remote /= NoFiles

\* C19: download() against a prefix that holds no session objects (nothing,
\* or the lock object alone) returns without raising and leaves the local
\* directory without any file it did not have.
C19_FreshStart ==
    [][\A t \in BagToSet(tasks) :
          (t.kind = "call" /\ t.op = "download" /\ remote = NoFiles
             /\ budget'.faults = budget.faults
             /\ CopiesIn(t, tasks') < CopiesIn(t, tasks))
          => /\ local' = local
             /\ ~step'.threw
             /\ t.pc = "mkdir" => Moved(t, [t EXCEPT !.pc = "list"])
             /\ t.pc = "list" => (step'.op = "downloadDone" /\ tasks' = EmptyBag)
             /\ t.pc /= "get"
      ]_vars

\* A restarted process has downloaded from a prefix that holds the lock
\* object alone.
C19_Witness ==
    /\ step.op = "downloadDone"
    /\ remote = NoFiles
    /\ lockObj /= NoLock
    /\ local = NoFiles
    /\ localDir

\* C20: after a completed upload(), a restart that runs download() into an
\* empty session directory reproduces exactly the files, names and
\* contents, that the directory held when the upload returned.
C20_Claim ==
    (step.op = "downloadDone" /\ snap.n > 0) => local = snap.local

\* What a step left of the queue and of its drain loop.
QueueAlone == UNCHANGED <<qVars, nextId, rejected>>

\* C21: POST /send-message with `to` or `message` missing responds 400 in
\* every connection state and does not change the queue.
C21_MissingField ==
    [][(step'.op = "respond" /\ step'.route = "send"
          /\ (step'.to = "missing" \/ step'.msg = "missing"))
         => (step'.status = 400 /\ QueueAlone)]_vars

\* A request without message was answered 400 while the bot was not
\* connected and messages were queued.
C21_Witness ==
    /\ step.op = "respond"
    /\ step.route = "send"
    /\ step.msg = "missing"
    /\ step.to = "text"
    /\ step.status = 400
    /\ ~isConnected
    /\ queue /= <<>>

\* C22: POST /send-message with both fields present while the bot is not
\* connected responds 503 in the step of the request and enqueues nothing:
\* no id is given out, the queue and the drain loop stay as they are, so no
\* send is ever attempted for that request.
C22_NotConnected ==
    [][(step'.op = "respond" /\ step'.route = "send"
          /\ step'.to /= "missing" /\ step'.msg /= "missing" /\ ~isConnected)
         => (step'.status = 503 /\ QueueAlone /\ budget' = budget)]_vars

\* A complete request was answered 503 while the bot was not connected, its
\* queue empty and its drain loop idle.
C22_Witness ==
    /\ step.op = "respond"
    /\ step.route = "send"
    /\ step.to = "text"
    /\ step.msg = "text"
    /\ step.status = 503
    /\ ~isConnected
    /\ queue = <<>>
    /\ ~processing
    /\ nextId = 1

C24_Claim ==
    (step.op = "respond" /\ step.route = "health" /\ ~isConnected)
        => (step.status = 200 /\ ~step.ok)

\* How many invocations of the operation have failed so far in SpecRetry.
Failed == RetryMax - budget.faults

\* C25: withRetry(operation, name, maxAttempts) with maxAttempts >= 1
\* invokes the operation at most maxAttempts times; it returns from the first
\* invocation that succeeds, without another invocation; when all
\* maxAttempts invocations have failed it throws the error of the last one.
C25_WithRetry ==
    /\ \A t \in BagToSet(tasks) :
          (t.kind = "call" /\ t.op = "operation")
             => /\ t.attempt \in 1..t.max
                /\ Failed = (IF t.pc = "run" THEN t.attempt - 1 ELSE t.attempt)
    /\ step.op = "operationDone"
          => /\ tasks = EmptyBag
             /\ step.attempt \in 1..step.max
             /\ Failed = step.attempt - 1
    /\ step.op = "callFailed"
          => /\ tasks = EmptyBag
             /\ step.attempt = step.max
             /\ Failed = step.max

\* With maxAttempts of 2 or more every invocation has failed and the call
\* has thrown.
C25_Witness ==
    /\ step.op = "callFailed"
    /\ step.threw
    /\ step.max >= 2
    /\ Failed = step.max

\* The drain loop awaits a send of the message it has taken.
Sending == drainPc \in {"sendEngine", "sendRejected"}

\* C26: when a send fails for a message with more than one remaining
\* attempt, the message goes back with one attempt less, in front of every
\* message that was enqueued before the failure, and it stays the front
\* message, whatever is enqueued meanwhile, until the drain loop takes it
\* for its next attempt.
C26_RetryFirst ==
    [][/\ (Sending /\ item.retries > 1 /\ ~Sending' /\ step'.op /= "sent")
          => /\ step'.op = "requeued"
             /\ queue' /= <<>>
             /\ Head(queue') = [item EXCEPT !.retries = @ - 1]
             /\ Tail(queue') = queue
       /\ (queue /= <<>> /\ Head(queue).tries > 0)
          => \/ queue' /= <<>> /\ Head(queue') = Head(queue)
             \/ Sending' /\ item' = [Head(queue) EXCEPT !.tries = @ + 1]
      ]_vars

\* Message 1 is attempted for the second time while message 2, enqueued
\* before that attempt, waits.
C26_Witness ==
    /\ Sending
    /\ item.id = 1
    /\ item.tries = 2
    /\ item.retries = item.n0 - 1
    /\ queue /= <<>>
    /\ Head(queue).id = 2
    /\ Head(queue).tries = 0

\* C27: at most one drain loop is active and at most one send of the queue
\* is in flight, however enqueue() calls interleave with the suspension
\* points of the drain loop: a loop runs exactly while the flag is set, and
\* a send in flight is the send of the one running loop.
C27_OneLoop ==
    /\ loops \in {0, 1}
    /\ processing <=> loops = 1
    /\ drainPc /= "idle" <=> loops = 1
    /\ Sending <=> item /= NoItem
    /\ Sending => loops = 1

\* enqueue() has been accepted while the drain loop awaited the engine's
\* send of an earlier message.
C27_Witness ==
    /\ step.op = "enqueue"
    /\ step.ok
    /\ drainPc = "sendEngine"
    /\ item.id = 1
    /\ queue /= <<>>
    /\ loops = 1

\* C28: when the drain loop takes the front message while the bot is not
\* connected, the attempt fails with 'not connected' and the engine's send
\* is not invoked; the failure uses up one attempt of the message like any
\* other: the message goes back with one attempt less, or is dropped when
\* that was its last.
C28_Rejected ==
    [][/\ (~Sending /\ Sending' /\ (sock = 0 \/ ~isConnected))
          => drainPc' = "sendRejected"
       /\ drainPc = "sendRejected"
          => \/ drainPc' = "sendRejected" /\ item' = item
             \/ /\ step'.reason = "notConnected"
                /\ IF item.retries > 1
                   THEN /\ step'.op = "requeued"
                        /\ Head(queue') = [item EXCEPT !.retries = @ - 1]
                   ELSE /\ step'.op = "dropped"
                        /\ queue' = queue
                        /\ \E f \in finished' \ finished :
                              f.id = item.id /\ f.how = "dropped" /\ f.tries = item.tries
      ]_vars

\* The last attempt of a message was refused because the bot was not
\* connected, and the message was dropped.
C28_Witness ==
    /\ step.op = "dropped"
    /\ step.reason = "notConnected"
    /\ \E f \in finished : f.how = "dropped" /\ f.n0 = 2 /\ f.tries = 2

\* C29: whenever the queue is not empty a drain loop is active and the flag
\* is set; a loop that exits leaves the queue empty and the flag cleared;
\* an enqueue() call that finds the flag cleared starts a loop, which takes
\* the message at once.
C29_LoopCovers ==
    [][/\ queue /= <<>> => (processing /\ loops = 1)
       /\ queue' /= <<>> => (processing' /\ loops' = 1)
       /\ ~processing' => (queue' = <<>> /\ drainPc' = "idle" /\ loops' = 0)
       /\ (processing /\ ~processing') => (queue = <<>> /\ loops' = loops - 1)
       /\ (~processing /\ nextId' /= nextId /\ rejected' = rejected)
          => (processing' /\ loops' = 1 /\ Sending' /\ item'.id = nextId)
      ]_vars

\* After the loop that sent message 1 has exited, enqueue() of message 2 has
\* started a new loop.
C29_Witness ==
    /\ step.op = "enqueue"
    /\ step.ok
    /\ \E f \in finished : f.id = 1
    /\ Sending
    /\ item.id = 2
    /\ processing
    /\ queue = <<>>

\* The suspended initialize() calls among the handlers b.
InitRun(b) == {t \in BagToSet(b) : t.kind = "init"}

\* C30: in every run of initialize() the acquireLock() call has returned
\* before the download begins, the download has returned without an error
\* before the auth state is initialized, and no socket is made before that:
\* the first socket is made by the run whose download succeeded, every later
\* one by a reconnect timer.
C30_Order ==
    [][/\ \A t2 \in InitRun(tasks') \ InitRun(tasks) :
             /\ t2.pc = "initMkdir"
                => /\ step'.op = "acquired"
                   /\ step'.inst = Me
                   /\ \E t \in InitRun(tasks) : t.op = "acquire"
             /\ (t2.op = "download" /\ t2.attempt = 1 /\ t2.pc = "mkdir")
                => \E t \in InitRun(tasks) : t.pc = "initMkdir"
             /\ t2.op = "download"
                => \E t \in InitRun(tasks) : t.pc = "initMkdir" \/ t.op = "download"
             /\ t2.pc = "auth"
                => /\ \E t \in InitRun(tasks) : t.op = "download" /\ t.pc \in {"list", "get"}
                   /\ budget'.faults = budget.faults
                   /\ ~authReady
       /\ (authReady' /= authReady \/ (sock = 0 /\ sock' /= 0))
             => /\ \E t \in InitRun(tasks) : t.pc = "auth"
                /\ InitRun(tasks') = {}
                /\ authReady'
       /\ sock' /= sock
             => \/ \E t \in InitRun(tasks) : t.pc = "auth"
                \/ authReady /\ sock /= 0 /\ Len(timers') < Len(timers)
       /\ (\E i \in DOMAIN timers : timers[i].kind = "reconnect") => (sock /= 0 /\ authReady)
      ]_vars

\* A second run of initialize(), started by the retry timer, has downloaded
\* the session and made the socket.
C30_Witness ==
    /\ step.op = "connect"
    /\ now >= BootTime + initRetryDelay
    /\ budget.faults < BootFaults
    /\ sock /= 0
    /\ authReady
    /\ local = OldSession
    /\ tasks = EmptyBag

\* C31: clearSessionFromBucket() deletes every object under the session
\* prefix except the lock object, which no step of it touches: when the call
\* has returned no session object is left.
C31_Claim ==
    [][/\ (\E t \in BagToSet(tasks) : t.op = "clear") => lockObj' = lockObj
       /\ step'.op = "clearDone" => ListOf(remote') = <<>>
      ]_vars

\* C32: when downloadSessionFromBucket() has returned, every object under
\* the prefix other than the lock object lock.json has a local file of the
\* same relative path and content, and lock.json is not in the session
\* directory.
C32_Claim ==
    step.op = "downloadDone"
        => /\ \A f \in DOMAIN remote :
                 remote[f] /= NoFile => (f \in DOMAIN local /\ local[f] = remote[f])
           /\ LockName \in DOMAIN local => local[LockName] = NoFile

\* C33: after breaking a stale lock acquireLock() retries the conditional
\* create at most once: the call made after a stale record was deleted
\* returns true or false and breaks no lock again, also when its create
\* conflicts or when the delete did not succeed.
C33_Claim ==
    \A t \in BagToSet(tasks) :
        t.op = "acquire"
            => \A i \in DOMAIN t.frames : t.frames[i] = "try" => i = Len(t.frames)

\* C34: acquireLock() deletes an existing lock object only after it has
\* read that object's record and found it older than its ttl; a read that
\* failed never makes it delete a lock that is not expired.
C34_Claim ==
    [][\A t \in BagToSet(tasks) :
          (/\ t.op = "acquire" /\ t.pc = "break"
           /\ Moved(t, [t EXCEPT !.pc = "create", !.wake = now])
           /\ lockObj /= NoLock /\ lockObj' = NoLock)
          => /\ t.frames[Len(t.frames)] = "try"
             /\ now - lockObj.at > lockTtlMs
      ]_vars

\* C35: when the uploads started by successive creds.update events have all
\* returned and the session directory changes no more, every object they
\* wrote has the content of the local file of its name.
C35_Claim ==
    (tasks = EmptyBag /\ budget.events = 0)
        => \A f \in DOMAIN local : local[f] /= NoFile => remote[f] = local[f]

\* C36: the delay withRetry() sleeps after failed attempt k, 1 <= k <
\* maxRetries, is at least min(baseDelay * 2^(k-1), maxDelay), at most
\* baseDelay * 2^(k-1) * 1.1, and never more than maxDelay.
C36_Backoff ==
    [][\A t2 \in BagToSet(tasks') \ BagToSet(tasks) :
          t2.pc = "backoff"
             => LET k == t2.attempt
                    d == t2.wake - now
                    e == baseRetryDelay * Pow2(k - 1)
                IN /\ k \in 1..(t2.max - 1)
                   /\ d >= (IF e <= maxRetryDelay THEN e ELSE maxRetryDelay)
                   /\ 10 * d <= 11 * e
                   /\ d <= maxRetryDelay
      ]_vars

\* The sixth attempt has failed and the sleep before the seventh is the
\* maximum delay.
C36_Witness ==
    \E t \in BagToSet(tasks) :
        /\ t.pc = "backoff"
        /\ t.attempt = 6
        /\ t.wake = BootTime + maxRetryDelay
        /\ now = BootTime

\* C37: in every reachable state the queue holds at most
\* messageQueueMaxSize messages, also right after a failed message was put
\* back in front while other messages were enqueued during its send.
C37_Claim == Len(queue) <= messageQueueMaxSize

\* The identifiers of the waiting messages grow from the front to the back,
\* and a message in flight was enqueued before every waiting one.
InOrder ==
    /\ \A i \in 1..(Len(queue) - 1) : queue[i].id < queue[i + 1].id
    /\ Sending => \A i \in 1..Len(queue) : item.id < queue[i].id

\* C38: messages are attempted in enqueue order: the message the drain loop
\* takes for an attempt is the front message (or, with nothing waiting, the
\* message just enqueued), every waiting message was enqueued after it, and putting a failed message back keeps that order,
\* so no message is attempted while an earlier one still waits.
C38_EnqueueOrder ==
    [][/\ InOrder
       /\ InOrder'
       /\ (~Sending /\ Sending')
          => /\ queue /= <<>> => item'.id = Head(queue).id
             /\ \A i \in 1..Len(queue) : item'.id <= queue[i].id
             /\ \A i \in 1..Len(queue') : item'.id < queue'[i].id
      ]_vars

\* Message 1 has failed and is back in front of message 2, which has not
\* been attempted.
C38_Witness ==
    /\ step.op = "requeued"
    /\ Len(queue) >= 2
    /\ queue[1].id = 1
    /\ queue[1].tries = 1
    /\ queue[2].id = 2
    /\ queue[2].tries = 0

\* The reconnect timers that are pending.
ReconnectTimers == {i \in DOMAIN timers : timers[i].kind = "reconnect"}

\* C39: at any time at most one reconnect timer is pending, so that a new
\* socket is created only after the previous one has closed, for every
\* sequence of close events, repeated close events of one socket included.
C39_Claim == Cardinality(ReconnectTimers) <= 1

\* C40: the auto-reply to an inbound text message of identifier J is sent
\* to exactly J: what toWhatsAppJID makes of the recipient at send time is
\* the sender's identifier itself.
C40_Claim == step.op = "sent" => step.jid = step.rcpt
====
